---- MODULE Spec2Model ----
(***************************************************************************)
(* Model of assess-category.py: Predictor.get_predictions (batched,        *)
(* retried requests to the scoring service), Predictor.predict (category   *)
(* members -> latest revisions -> predictions -> candidates) and           *)
(* Predictor.build_table (the sorted report).                              *)
(*                                                                         *)
(* Python values.  A str of decimal digits is a sequence of digits, so     *)
(* that str() and int() are computed and dictionary keys are compared as   *)
(* strings.  A value that is an int or a str is a record [t, n, s].        *)
(* A dict that is iterated is a sequence of entries in insertion order; a  *)
(* dict that is only looked up is a function.  Probabilities are integers  *)
(* in hundredths (0.08 is 8).  A page title is the sequence of its         *)
(* characters, so that replace() is computed.  Exceptions are those of     *)
(* Python 3.                                                               *)
(*                                                                         *)
(* The environment: members is the set of titles the member query gave;    *)
(* num_sleeps counts the calls of time.sleep in the current batch;         *)
(* failed_batches holds the start index of every batch that used all its   *)
(* attempts without a parsed response.                                     *)
(***************************************************************************)
EXTENDS Integers, Sequences, FiniteSets, TLC

VARIABLES pc, caller, members, art_rev_map, cursor, rev_ids, i, num_attempts,
          num_sleeps, predictions, failed_batches, target, distance,
          candidate_map, table, exc

vars == <<pc, caller, members, art_rev_map, cursor, rev_ids, i, num_attempts,
          num_sleeps, predictions, failed_batches, target, distance,
          candidate_map, table, exc>>

(* ------------------------------ bounds -------------------------------- *)

\* rows the member query returns, at most
MaxRows == 3

\* the largest distance argument tried
MaxDistance == 2

\* revisions scored in one response, at most
MaxEntries == 2

\* full batches in a list handed to get_predictions directly, at most
MaxFullBatches == 1

\* revisions after the last full batch of such a list, at most
MaxExtra == 1

\* page titles of the page table: spaces are stored as underscores
Titles == {<<"A">>, <<"B">>, <<"C">>, <<"A", "_", "B">>}

\* page_latest values the resolver can return
Revs == {101, 102}

(* --------------------------- Predictor.__init__ ------------------------ *)

wp10 == <<"FA", "GA", "B", "C", "Start", "Stub">>

iter_size == 50

max_url_attempts == 3

(* ----------------------------- Python values --------------------------- *)

PyInt(n) == [t |-> "int", n |-> n, s |-> <<>>]

PyStr(s) == [t |-> "str", n |-> 0, s |-> s]

RECURSIVE Digits(_)
\* the decimal digits of a natural number, most significant first
Digits(n) == IF n < 10 THEN <<n>> ELSE Append(Digits(n \div 10), n % 10)

RECURSIVE Parse(_)
\* the natural number a non-empty sequence of digits denotes
Parse(s) == IF Len(s) = 1 THEN s[1]
            ELSE 10 * Parse(SubSeq(s, 1, Len(s) - 1)) + s[Len(s)]

\* str(x) of an int >= 0 or of a str
Str(x) == IF x.t = "int" THEN Digits(x.n) ELSE x.s

\* int(x) of an int or of a str of digits
Int_(x) == IF x.t = "int" THEN x.n ELSE Parse(x.s)

BoundedSeq(S, n) == UNION {[1..k -> S] : k \in 0..n}

Range(s) == {s[k] : k \in DOMAIN s}

(* ---------------------------- scoring service -------------------------- *)

\* ratings the service may predict: the best class, the two worst (adjacent
\* on the scale) and one outside the scale
Ratings == {"FA", "Start", "Stub", "List"}

P101 == [FA |-> 1, GA |-> 2, B |-> 5, C |-> 12, Start |-> 30, Stub |-> 50]

P102 == [FA |-> 90, GA |-> 4, B |-> 3, C |-> 2, Start |-> 1, Stub |-> 0]

\* a probability mapping that lacks the class GA
PLack == [FA |-> 80, B |-> 10, C |-> 5, Start |-> 3, Stub |-> 2]

\* the probabilities the service gives with a predicted rating: the mass is
\* on the better classes when it predicts one of them
ProbsOf(rating) == IF rating \in {"FA", "GA", "B"} THEN P102 ELSE P101

\* one revision's score object: the keys it has and their values (the value
\* of a key it does not have is never read); the object without 'prediction'
\* is the one that raises KeyError at line 157
ScoreData ==
    {[keys |-> {"prediction", "probability"}, prediction |-> r,
      probability |-> ProbsOf(r)] : r \in Ratings}
    \cup {[keys |-> {"prediction", "probability"}, prediction |-> "FA",
           probability |-> PLack],
          [keys |-> {"probability"}, prediction |-> "FA", probability |-> P101]}

\* the revisions of a batch the service may score: its first and its last
RespRevs(subset) ==
    {Str(subset[k]) : k \in {k \in DOMAIN subset : k = 1 \/ k = Len(subset)}}

\* the per-revision score objects of a response, in the body's order
ScoreEntries(subset) ==
    {e \in BoundedSeq([revid : RespRevs(subset), score_data : ScoreData], MaxEntries) :
        \A a, b \in DOMAIN e : a # b => e[a].revid # e[b].revid}

NoEntries == <<>>

\* what one GET can come back with
Responses(subset) ==
    {[status |-> 500, body |-> "none", entries |-> NoEntries],
     [status |-> 200, body |-> "not_json", entries |-> NoEntries],
     [status |-> 200, body |-> "keys_absent", entries |-> NoEntries],
     [status |-> 200, body |-> "not_mapping", entries |-> NoEntries]}
    \cup {[status |-> 200, body |-> "scores", entries |-> e] : e \in ScoreEntries(subset)}

(* ------------------------------ Prediction ----------------------------- *)

Prediction(revision_id, rating, probs) ==
    [rev_id |-> revision_id, rating |-> rating, probs |-> probs, p_above_target |-> 0]

NoTitle == <<>>

NoExc == [type |-> "none", line |-> 0, at |-> NoTitle]

Raised(type, line, at) == [type |-> type, line |-> line, at |-> at]

(* --------------------------- get_predictions --------------------------- *)

\* rev_ids[i:i + iter_size]
Subset(ids, from) ==
    SubSeq(ids, from + 1, IF from + iter_size < Len(ids) THEN from + iter_size ELSE Len(ids))

RECURSIVE StoreScores(_, _, _)
\* lines 155-158: store the response's predictions one by one; a score
\* object without 'prediction' or 'probability' raises KeyError and leaves
\* what was stored before it
StoreScores(preds, entries, k) ==
    IF k > Len(entries) THEN [predictions |-> preds, ok |-> TRUE]
    ELSE LET e == entries[k] IN
         IF {"prediction", "probability"} \subseteq e.score_data.keys
         THEN StoreScores(
                 [x \in DOMAIN preds \cup {e.revid} |->
                     IF x = e.revid
                     THEN Prediction(e.revid, e.score_data.prediction,
                                     e.score_data.probability)
                     ELSE preds[x]],
                 entries, k + 1)
         ELSE [predictions |-> preds, ok |-> FALSE]

EmptyDict == [x \in {} |-> 0]

\* one GET of the batch's url and what lines 150-169 do with the response
AfterResponse(r) ==
    IF r.status # 200
    THEN \* the loop condition is evaluated again at once
         [pc |-> "attempt", predictions |-> predictions, i |-> i, exc |-> NoExc]
    ELSE CASE r.body = "not_json" ->   \* r.json() raises ValueError
                [pc |-> "sleep", predictions |-> predictions, i |-> i, exc |-> NoExc]
           [] r.body = "keys_absent" ->   \* response['scores'][..] raises KeyError
                [pc |-> "sleep", predictions |-> predictions, i |-> i, exc |-> NoExc]
           [] r.body = "not_mapping" ->   \* subscripting a list, a number: TypeError
                [pc |-> "raised", predictions |-> predictions, i |-> i,
                 exc |-> Raised("TypeError", 153, NoTitle)]
           [] OTHER ->
                LET st == StoreScores(predictions, r.entries, 1) IN
                IF st.ok
                THEN \* break, then line 172
                     [pc |-> "batch", predictions |-> st.predictions,
                      i |-> i + iter_size, exc |-> NoExc]
                ELSE [pc |-> "sleep", predictions |-> st.predictions, i |-> i,
                      exc |-> NoExc]

\* lines 135-145: the outer loop goes on with the batch at i
BatchStart ==
    /\ pc = "batch"
    /\ i < Len(rev_ids)
    /\ num_attempts' = 0
    /\ num_sleeps' = 0
    /\ pc' = "attempt"
    /\ UNCHANGED <<caller, members, art_rev_map, cursor, rev_ids, i, predictions,
                   failed_batches, target, distance, candidate_map, table, exc>>

\* lines 146-166: one attempt
Request ==
    /\ pc = "attempt"
    /\ num_attempts < max_url_attempts
    /\ \E r \in Responses(Subset(rev_ids, i)) :
          LET a == AfterResponse(r) IN
          /\ pc' = a.pc
          /\ predictions' = a.predictions
          /\ i' = a.i
          /\ exc' = a.exc
    /\ num_attempts' = num_attempts + 1
    /\ UNCHANGED <<caller, members, art_rev_map, cursor, rev_ids, num_sleeps,
                   failed_batches, target, distance, candidate_map, table>>

\* line 169: time.sleep(0.5)
Sleep ==
    /\ pc = "sleep"
    /\ num_sleeps' = num_sleeps + 1
    /\ pc' = "attempt"
    /\ UNCHANGED <<caller, members, art_rev_map, cursor, rev_ids, i, num_attempts,
                   predictions, failed_batches, target, distance, candidate_map,
                   table, exc>>

\* lines 146, 172: the attempts are used up without a break
Exhausted ==
    /\ pc = "attempt"
    /\ num_attempts >= max_url_attempts
    /\ failed_batches' = failed_batches \cup {i}
    /\ i' = i + iter_size
    /\ pc' = "batch"
    /\ UNCHANGED <<caller, members, art_rev_map, cursor, rev_ids, num_attempts, num_sleeps,
                   predictions, target, distance, candidate_map, table, exc>>

\* lines 135, 174: return(predictions); the locals of the call are gone
Return ==
    /\ pc = "batch"
    /\ i >= Len(rev_ids)
    /\ pc' = IF caller = "predict" THEN "rank" ELSE "fetched"
    /\ i' = 0
    /\ num_attempts' = 0
    /\ num_sleeps' = 0
    /\ UNCHANGED <<caller, members, art_rev_map, cursor, rev_ids, predictions,
                   failed_batches, target, distance, candidate_map, table, exc>>

\* the lists get_predictions is called with directly: revision IDs 101, 102, ...
FetchLists ==
    {[k \in 1..(f * iter_size + e) |-> PyInt(100 + k)] :
        f \in 0..MaxFullBatches, e \in 0..MaxExtra}

InitFetch ==
    /\ pc = "batch"
    /\ caller = "direct"
    /\ members = {}
    /\ art_rev_map = <<>>
    /\ cursor = 0
    /\ rev_ids \in FetchLists
    /\ i = 0
    /\ num_attempts = 0
    /\ num_sleeps = 0
    /\ predictions = EmptyDict
    /\ failed_batches = {}
    /\ target = ""
    /\ distance = PyInt(2)
    /\ candidate_map = <<>>
    /\ table = <<>>
    /\ exc = NoExc

NextFetch == BatchStart \/ Request \/ Sleep \/ Exhausted \/ Return

SpecFetch == InitFetch /\ [][NextFetch]_vars

(* -------------------------------- predict ------------------------------ *)

\* art_rev_map[page_title] = value: a new key goes last, a known key keeps
\* its place
DictSet(d, key, value) ==
    IF \E k \in DOMAIN d : d[k].title = key
    THEN [k \in DOMAIN d |-> IF d[k].title = key THEN [title |-> key, rev |-> value]
                                                 ELSE d[k]]
    ELSE Append(d, [title |-> key, rev |-> value])

RECURSIVE MembersFrom(_, _, _)
\* lines 229-237: every fetched row sets art_rev_map[page_title] = -1
MembersFrom(d, rows, k) ==
    IF k > Len(rows) THEN d
    ELSE MembersFrom(DictSet(d, rows[k], PyInt(-1)), rows, k + 1)

\* lines 250-257: the titles kept are those with int(rev_id) > 0
HasLatest(entry) == ~(Int_(entry.rev) <= 0)

\* list(art_rev_map.values())
Values(d) == [k \in DOMAIN d |-> d[k].rev]

\* line 266: wp10_map, the 0-based index of a class of the scale
wp10_map(rating) == (CHOOSE k \in DOMAIN wp10 : wp10[k] = rating) - 1

\* the candidate test with > for >=
QualifiesStrict(target_idx, rating_idx, dist) == target_idx - rating_idx > dist

\* the candidate test with the operands of the difference exchanged
QualifiesWorse(target_idx, rating_idx, dist) == rating_idx - target_idx >= dist

\* the candidate test on the absolute difference
QualifiesAbs(target_idx, rating_idx, dist) ==
    \/ target_idx - rating_idx >= dist
    \/ rating_idx - target_idx >= dist

\* line 277: the candidate test
Qualifies(target_idx, rating_idx, dist) == target_idx - rating_idx >= dist

\* rev_pred_map[rev_id] without the except clause
LookupPredictionUncaught(preds, rev_id) ==
    IF rev_id \in DOMAIN preds THEN "found" ELSE "raise"

\* lines 270-274: rev_pred_map[rev_id], a missing key is skipped
LookupPrediction(preds, rev_id) ==
    IF rev_id \in DOMAIN preds THEN "found" ELSE "continue"

RECURSIVE AddAbove(_, _, _, _)
\* lines 279-280: p_above_target += probs[wp10[i]] for i in range(0, target_idx),
\* from class index k on; a class the mapping lacks raises KeyError
AddAbove(p, probs, k, target_idx) ==
    IF k >= target_idx THEN [ok |-> TRUE, p |-> p]
    ELSE IF wp10[k + 1] \in DOMAIN probs
         THEN AddAbove(p + probs[wp10[k + 1]], probs, k + 1, target_idx)
         ELSE [ok |-> FALSE, p |-> p]

RECURSIVE RankFrom(_, _, _, _, _, _)
\* lines 269-280 from the k-th entry of art_rev_map on; dist is an int or a
\* str, and line 277 compares an int with it.  A candidate is the
\* title and the key of its Prediction object in preds: the object is shared
\* by every title of that revision, and line 280 adds to the object's field.
RankFrom(k, cands, preds, arm, target_idx, dist) ==
    IF k > Len(arm)
    THEN [candidate_map |-> cands, predictions |-> preds, exc |-> NoExc]
    ELSE LET page_title == arm[k].title
             rev_id == Str(arm[k].rev)
         IN
         CASE LookupPrediction(preds, rev_id) = "continue" ->
                RankFrom(k + 1, cands, preds, arm, target_idx, dist)
           [] LookupPrediction(preds, rev_id) = "raise" ->
                [candidate_map |-> cands, predictions |-> preds,
                 exc |-> Raised("KeyError", 271, page_title)]
           [] OTHER ->
                LET rev_pred == preds[rev_id] IN
                IF rev_pred.rating \notin Range(wp10)
                THEN [candidate_map |-> cands, predictions |-> preds,
                      exc |-> Raised("KeyError", 277, page_title)]
                ELSE IF dist.t # "int"
                THEN \* int >= str
                     [candidate_map |-> cands, predictions |-> preds,
                      exc |-> Raised("TypeError", 277, page_title)]
                ELSE IF Qualifies(target_idx, wp10_map(rev_pred.rating), dist.n)
                THEN LET sum == AddAbove(rev_pred.p_above_target, rev_pred.probs,
                                         0, target_idx)
                         preds2 == [preds EXCEPT ![rev_id].p_above_target = sum.p]
                         cands2 == Append(cands, [title |-> page_title, pred |-> rev_id])
                     IN
                     IF sum.ok
                     THEN RankFrom(k + 1, cands2, preds2, arm, target_idx, dist)
                     ELSE [candidate_map |-> cands2, predictions |-> preds2,
                           exc |-> Raised("KeyError", 280, page_title)]
                ELSE RankFrom(k + 1, cands, preds, arm, target_idx, dist)

\* the target classes predict is called with: the best class, a middle one,
\* the worst, and one outside the scale
Targets == {"FA", "C", "Stub", "A"}

\* the distance arguments predict is called with: an int (2 when main is
\* given no --distance), or the str main passes for --distance (type=str)
Distances ==
    {PyInt(d) : d \in 0 .. MaxDistance} \cup {PyStr(Digits(MaxDistance))}

\* lines 92-101, 221: MySQLdb.connect raises, and the handler of db_connect
\* subscripts the exception (e[0]), which raises TypeError: predict does not
\* return
ConnectFails ==
    /\ pc = "start"
    /\ exc' = Raised("TypeError", 101, NoTitle)
    /\ pc' = "raised"
    /\ UNCHANGED <<caller, members, art_rev_map, cursor, rev_ids, i, num_attempts,
                   num_sleeps, predictions, failed_batches, target, distance,
                   candidate_map, table>>

\* lines 226-239: the members of the category
FetchMembers ==
    /\ pc = "start"
    /\ \E rows \in BoundedSeq(Titles, MaxRows) :
          /\ art_rev_map' = MembersFrom(<<>>, rows, 1)
          /\ members' = Range(rows)
    /\ cursor' = 1
    /\ pc' = "latest"
    /\ UNCHANGED <<caller, rev_ids, i, num_attempts, num_sleeps, predictions,
                   failed_batches, target, distance, candidate_map, table, exc>>

\* lines 243-247: the latest revision of the next title, when the page table
\* has a row for it
ResolveLatest ==
    /\ pc = "latest"
    /\ cursor <= Len(art_rev_map)
    /\ \/ \E page_latest \in Revs :
             art_rev_map' = DictSet(art_rev_map, art_rev_map[cursor].title,
                                    PyStr(Str(PyInt(page_latest))))
       \/ UNCHANGED art_rev_map
    /\ cursor' = cursor + 1
    /\ UNCHANGED <<pc, caller, members, rev_ids, i, num_attempts, num_sleeps, predictions,
                   failed_batches, target, distance, candidate_map, table, exc>>

\* lines 250-261: drop the titles without a latest revision and call
\* get_predictions with the revision IDs left
DropAndFetch ==
    /\ pc = "latest"
    /\ cursor > Len(art_rev_map)
    /\ art_rev_map' = SelectSeq(art_rev_map, HasLatest)
    /\ rev_ids' = Values(art_rev_map')
    /\ predictions' = EmptyDict
    /\ i' = 0
    /\ cursor' = 0
    /\ pc' = "batch"
    /\ UNCHANGED <<caller, members, num_attempts, num_sleeps, failed_batches,
                   target, distance, candidate_map, table, exc>>

\* lines 266-282: the candidates.  target and distance, arguments of predict,
\* are first read here.
Rank ==
    /\ pc = "rank"
    /\ \E tg \in Targets, dist \in Distances :
          /\ target' = tg
          /\ distance' = dist
          /\ IF tg \notin Range(wp10)
             THEN /\ exc' = Raised("KeyError", 267, NoTitle)
                  /\ pc' = "raised"
                  /\ UNCHANGED <<candidate_map, predictions>>
             ELSE LET r == RankFrom(1, <<>>, predictions, art_rev_map,
                                    wp10_map(tg), dist) IN
                  /\ candidate_map' = r.candidate_map
                  /\ predictions' = r.predictions
                  /\ exc' = r.exc
                  /\ pc' = IF r.exc = NoExc THEN "returned" ELSE "raised"
    /\ UNCHANGED <<caller, members, art_rev_map, cursor, rev_ids, i, num_attempts,
                   num_sleeps, failed_batches, table>>

(* ------------------------------ build_table ---------------------------- *)

RECURSIVE InsertBeforeEqual(_, _, _)
\* x goes before the rows whose key equals its own
InsertBeforeEqual(rows, x, k) ==
    IF k > Len(rows) THEN Append(rows, x)
    ELSE IF rows[k].key > x.key THEN InsertBeforeEqual(rows, x, k + 1)
    ELSE SubSeq(rows, 1, k - 1) \o <<x>> \o SubSeq(rows, k, Len(rows))

RECURSIVE InsertDescending(_, _, _)
\* x goes after every row whose key is not smaller than its own
InsertDescending(rows, x, k) ==
    IF k > Len(rows) THEN Append(rows, x)
    ELSE IF rows[k].key >= x.key THEN InsertDescending(rows, x, k + 1)
    ELSE SubSeq(rows, 1, k - 1) \o <<x>> \o SubSeq(rows, k, Len(rows))

RECURSIVE SortedFrom(_, _, _)
SortedFrom(done, items, k) ==
    IF k > Len(items) THEN done
    ELSE SortedFrom(InsertDescending(done, items[k], 1), items, k + 1)

\* lines 306-308: sorted(candidates.items(), key=p_above_target, reverse=True):
\* descending, equal keys in the order of candidates.items()
sorted_candidates(items) == SortedFrom(<<>>, items, 1)

\* candidates.items() with each Prediction's sort key
Items(cands, preds) ==
    [k \in DOMAIN cands |->
        [title |-> cands[k].title, pred |-> cands[k].pred,
         key |-> preds[cands[k].pred].p_above_target]]

\* str.replace(old, new) for one-character old and new
Replace(str, old, new) == [k \in DOMAIN str |-> IF str[k] = old THEN new ELSE str[k]]

\* lines 310-315: one row per sorted candidate: the title with spaces for
\* underscores, the rating, 100 * p
Rows(sorted, preds) ==
    [k \in DOMAIN sorted |->
        [page_title |-> Replace(sorted[k].title, "_", " "),
         rating |-> preds[sorted[k].pred].rating,
         prob |-> preds[sorted[k].pred].p_above_target]]

\* lines 304-317, called with what predict returned
BuildTable ==
    /\ pc = "returned"
    /\ table' = Rows(sorted_candidates(Items(candidate_map, predictions)), predictions)
    /\ pc' = "done"
    /\ UNCHANGED <<caller, members, art_rev_map, cursor, rev_ids, i, num_attempts,
                   num_sleeps, predictions, failed_batches, target, distance,
                   candidate_map, exc>>

Init ==
    /\ pc = "start"
    /\ caller = "predict"
    /\ members = {}
    /\ art_rev_map = <<>>
    /\ cursor = 0
    /\ rev_ids = <<>>
    /\ i = 0
    /\ num_attempts = 0
    /\ num_sleeps = 0
    /\ predictions = EmptyDict
    /\ failed_batches = {}
    /\ target = ""
    /\ distance = PyInt(2)
    /\ candidate_map = <<>>
    /\ table = <<>>
    /\ exc = NoExc

Next ==
    \/ ConnectFails
    \/ FetchMembers
    \/ ResolveLatest
    \/ DropAndFetch
    \/ BatchStart
    \/ Request
    \/ Sleep
    \/ Exhausted
    \/ Return
    \/ Rank
    \/ BuildTable

Spec == Init /\ [][Next]_vars

(* ------------------------------- properties ---------------------------- *)

\* indexOf: the position of a class in [FA, GA, B, C, Start, Stub]
ScaleIndex == [FA |-> 0, GA |-> 1, B |-> 2, C |-> 3, Start |-> 4, Stub |-> 5]

\* the titles of predict's result
CandidateTitles == {candidate_map[k].title : k \in DOMAIN candidate_map}

\* the members with a resolved latest revision
ResolvedTitles == {art_rev_map[k].title : k \in DOMAIN art_rev_map}

\* the entries of art_rev_map whose revision ID is a key of the predictions
Predicted == {k \in DOMAIN art_rev_map : art_rev_map[k].rev.s \in DOMAIN predictions}

PredictionOf(k) == predictions[art_rev_map[k].rev.s]

\* indexOf(target) - indexOf(rating) of the k-th resolved title
Difference(k) == ScaleIndex[target] - ScaleIndex[PredictionOf(k).rating]

\* predict has returned its candidates
Returned == pc \in {"returned", "done"}

\* C1: when predict returns, a title with a resolved latest revision and a
\* prediction is a candidate if and only if
\* indexOf(target) - indexOf(rating) >= distance.
C1_CandidateIffDifference ==
    Returned =>
        \A k \in Predicted :
            /\ distance.t = "int"
            /\ (art_rev_map[k].title \in CandidateTitles) <=> (Difference(k) >= distance.n)

\* C1 witness: a returned result with a title included at a difference equal
\* to distance and a title excluded at a difference of distance - 1
C1_Witness ==
    /\ pc = "returned"
    /\ \E k \in Predicted :
          Difference(k) = distance.n /\ art_rev_map[k].title \in CandidateTitles
    /\ \E k \in Predicted :
          Difference(k) = distance.n - 1 /\ art_rev_map[k].title \notin CandidateTitles

\* the scenario: members A, B, C; A -> 101, B -> 102, no revision for C;
\* 101 predicted Stub with FA 0.01, GA 0.02, B 0.05; 102 predicted FA;
\* target C, distance 2
Scenario ==
    /\ pc = "returned"
    /\ members = {<<"A">>, <<"B">>, <<"C">>}
    /\ Len(art_rev_map) = 2
    /\ \E a, b \in DOMAIN art_rev_map :
          /\ art_rev_map[a] = [title |-> <<"A">>, rev |-> PyStr(<<1, 0, 1>>)]
          /\ art_rev_map[b] = [title |-> <<"B">>, rev |-> PyStr(<<1, 0, 2>>)]
    /\ DOMAIN predictions = {<<1, 0, 1>>, <<1, 0, 2>>}
    /\ predictions[<<1, 0, 1>>].rating = "Stub"
    /\ predictions[<<1, 0, 1>>].probs = P101
    /\ predictions[<<1, 0, 2>>].rating = "FA"
    /\ predictions[<<1, 0, 2>>].probs = P102
    /\ target = "C"
    /\ distance = PyInt(2)

\* C2 as stated: candidates are the titles predicted WORSE than the target by
\* at least distance, so in the scenario predict returns exactly {A}, with
\* probabilityAboveTarget 0.08.
C2_Original ==
    Scenario =>
        /\ CandidateTitles = {<<"A">>}
        /\ predictions[<<1, 0, 1>>].p_above_target = 8

\* C2 amended: a candidate is predicted at least distance positions BETTER
\* than the target (smaller index); in the scenario predict returns exactly
\* {B}, with probabilityAboveTarget the sum of the FA, GA and B probabilities
\* of revision 102, and A and C are excluded.
C2_CandidatesAreBetter ==
    /\ Scenario =>
          /\ CandidateTitles = {<<"B">>}
          /\ predictions[<<1, 0, 2>>].p_above_target = P102.FA + P102.GA + P102.B
    /\ Returned =>
          \A k \in DOMAIN candidate_map :
             ScaleIndex[predictions[candidate_map[k].pred].rating] + distance.n
                <= ScaleIndex[target]

\* C2 witness: the scenario has run
C2_Witness == Scenario /\ candidate_map # <<>>

\* C3: a batch that used all its attempts without a parsed response has no
\* revision of its own among the keys of the predictions.
C3_FailedBatchContributesNothing ==
    \A b \in failed_batches :
        \A k \in DOMAIN Subset(rev_ids, b) :
            Str(Subset(rev_ids, b)[k]) \notin DOMAIN predictions

\* C4: a batch is requested at least once and at most max_url_attempts times,
\* a batch ends only after a parsed response or after all its attempts, and
\* get_predictions returns: no exception leaves it.
C4_BoundedRetryAndReturn ==
    /\ num_attempts <= max_url_attempts
    /\ (pc = "batch" /\ i > 0) => num_attempts >= 1
    /\ \A b \in failed_batches : b < i \/ pc = "fetched"
    /\ pc # "raised"

\* the sum of probs over the classes at indices 0 .. indexOf(target) - 1
SumAbove(probs) ==
    LET above == {c \in DOMAIN probs : c \in DOMAIN ScaleIndex
                                        /\ ScaleIndex[c] < ScaleIndex[target]}
        RECURSIVE Sum(_)
        Sum(S) == IF S = {} THEN 0
                  ELSE LET c == CHOOSE c \in S : TRUE IN probs[c] + Sum(S \ {c})
    IN Sum(above)

\* C5: when predict returns, the p_above_target of every candidate is the sum
\* of its probabilities over the classes better than the target.
C5_ProbabilityAboveTarget ==
    Returned =>
        \A k \in DOMAIN candidate_map :
            LET pred == predictions[candidate_map[k].pred] IN
            pred.p_above_target = SumAbove(pred.probs)

\* C6: with the resolver reachable and the target one of the six classes the
\* run does not abort, whatever statuses, undecodable bodies, missing keys,
\* missing revisions, ratings and probability mappings the service answers
\* with.  Set aside are the exceptions the claim does not speak of: a failed
\* connect (line 101), an unknown target (line 267), a body that is no
\* mapping (line 153) and a distance that is a str (TypeError at line 277).
C6_ScoringNeverAborts ==
    (caller = "predict" /\ pc = "raised") =>
        \/ exc.line \in {101, 153, 267}
        \/ exc.line = 277 /\ exc.type = "TypeError"

\* C7 as stated: with distance 0 every title with a resolved revision and a
\* prediction is a candidate.
C7_Original ==
    (Returned /\ distance = PyInt(0)) =>
        \A k \in Predicted : art_rev_map[k].title \in CandidateTitles

\* C7 amended: with distance 0 the candidates are exactly the titles with a
\* resolved revision and a prediction whose rating is the target class or a
\* better one; for target Stub these are all of them.
C7_ZeroDistance ==
    (Returned /\ distance = PyInt(0)) =>
        /\ \A k \in Predicted :
              (art_rev_map[k].title \in CandidateTitles)
                 <=> (ScaleIndex[PredictionOf(k).rating] <= ScaleIndex[target])
        /\ target = "Stub" =>
              \A k \in Predicted : art_rev_map[k].title \in CandidateTitles

\* C7 witness: distance 0, a title predicted as the target class included and
\* a title predicted worse than the target excluded
C7_Witness ==
    /\ pc = "returned"
    /\ distance = PyInt(0)
    /\ \E k \in Predicted :
          /\ PredictionOf(k).rating = target
          /\ art_rev_map[k].title \in CandidateTitles
    /\ \E k \in Predicted :
          /\ ScaleIndex[PredictionOf(k).rating] > ScaleIndex[target]
          /\ art_rev_map[k].title \notin CandidateTitles

\* a title as a row shows it: a space for every underscore
Shown(title) == [k \in DOMAIN title |-> IF title[k] = "_" THEN " " ELSE title[k]]

\* the position, in the candidate mapping's iteration order, of the candidate
\* a row shows
RowCandidate(r) ==
    CHOOSE k \in DOMAIN candidate_map : Shown(candidate_map[k].title) = table[r].page_title

\* C8: the rows of the table are the candidates, each exactly once, with
\* their rating and probability, in non-increasing order of probability;
\* rows of equal probability are in the candidate mapping's order.
C8_SortedStable ==
    pc = "done" =>
        /\ Len(table) = Len(candidate_map)
        /\ \A k \in DOMAIN candidate_map :
              Cardinality({r \in DOMAIN table :
                              table[r].page_title = Shown(candidate_map[k].title)}) = 1
        /\ \A r \in DOMAIN table :
              /\ \E k \in DOMAIN candidate_map :
                    Shown(candidate_map[k].title) = table[r].page_title
              /\ table[r].prob =
                    predictions[candidate_map[RowCandidate(r)].pred].p_above_target
              /\ table[r].rating = predictions[candidate_map[RowCandidate(r)].pred].rating
        /\ \A a, b \in DOMAIN table :
              a < b =>
                 /\ table[a].prob >= table[b].prob
                 /\ table[a].prob = table[b].prob => RowCandidate(a) < RowCandidate(b)

\* C8 witness: a table with two rows of equal probability whose titles are
\* not in alphabetical order, a row of a title with an underscore, and a
\* first row that was not the first candidate
C8_Witness ==
    /\ pc = "done"
    /\ Len(table) = 3
    /\ \E a \in DOMAIN table :
          /\ a + 1 \in DOMAIN table
          /\ table[a].prob = table[a + 1].prob
          /\ table[a].page_title = <<"B">>
          /\ table[a + 1].page_title = <<"A">>
    /\ \E r \in DOMAIN table : table[r].page_title = <<"A", " ", "B">>
    /\ table[1].prob > table[3].prob
    /\ RowCandidate(1) > 1

\* C9: when predict returns, every candidate is a member with a resolved
\* revision whose ID is a key of the predictions, so a member without a
\* resolved revision or without a prediction is no candidate; and an
\* exception of the candidate loop is raised at a title that has both.
C9_SilentExclusion ==
    /\ Returned =>
          /\ CandidateTitles \subseteq
                {art_rev_map[k].title : k \in Predicted} \cap members
          /\ CandidateTitles \cap (members \ ResolvedTitles) = {}
    /\ (pc = "raised" /\ exc.line \in 269..280) =>
          exc.at \in {art_rev_map[k].title : k \in Predicted}
    /\ (pc \in {"batch", "attempt", "sleep", "rank"} /\ caller = "predict") =>
          /\ exc = NoExc
          /\ \A k \in DOMAIN art_rev_map : Int_(art_rev_map[k].rev) > 0

\* C9 witness: a returned result with a candidate, a member without a
\* resolved revision and a resolved member without a prediction
C9_Witness ==
    /\ pc = "returned"
    /\ candidate_map # <<>>
    /\ members \ ResolvedTitles # {}
    /\ \E k \in DOMAIN art_rev_map : k \notin Predicted

\* C10: before every request of a batch but its first, time.sleep has been
\* called once for each earlier request of the batch.
C10_WaitBeforeEveryRetry ==
    (pc = "attempt" /\ num_attempts > 0 /\ num_attempts < max_url_attempts) =>
        num_sleeps = num_attempts

====
